---------------------------- MODULE Spec2Model ----------------------------
(***************************************************************************)
(* Model of the "Hosting Company" server of podcast_verify_example.        *)
(*                                                                         *)
(*   Spec      the axum server of main.rs: the router built in main and    *)
(*             the handlers root, feed and verify, run over a bounded      *)
(*             number of requests that may be in flight together.          *)
(*   ViewSpec  view.rs: the pure function view::verify applied to a        *)
(*             VerifyState, and the countdown script it renders, run by    *)
(*             a browser one second at a time.                             *)
(*   PemSpec   the pure function pem_to_base64 applied to PEM documents.   *)
(*                                                                         *)
(* Text is modelled as a sequence of fragments (strings); html! and        *)
(* format! concatenate fragments in the order the source writes them.      *)
(* A PEM document is a sequence of one-character strings.                  *)
(***************************************************************************)
EXTENDS Integers, Sequences, FiniteSets, TLC

VARIABLES
    podcasts,       \* AppState.podcasts
    public_key,     \* AppState.public_key  (its base64 DER text)
    private_key,    \* AppState.private_key
    conn,           \* the requests accepted so far: [pc, req, resp]
    view_state,     \* argument of view::verify
    view_out,       \* Some(result of view::verify), None before the call
    browser,        \* the page's script state: [seconds, interval, location, elapsed, redirects]
    pem_lines,      \* the key lines a PEM document was framed from
    pem_input,      \* argument of pem_to_base64
    pem_out         \* [base64, rewrapped] once computed, None before

vars == <<podcasts, public_key, private_key, conn,
          view_state, view_out, browser, pem_lines, pem_input, pem_out>>

server_vars == <<podcasts, public_key, private_key, conn>>
view_vars == <<view_state, view_out, browser>>
pem_vars == <<pem_lines, pem_input, pem_out>>

-----------------------------------------------------------------------------
(* Bounds *)

MaxRequests == 2      \* requests accepted in one run
PemWrapWidth == 2     \* characters per base64 line written by the PEM encoder
MaxPemLines == 2      \* key lines of an enumerated PEM document
MaxSeconds == 12      \* seconds a browser is observed after a page is rendered
MaxPodcasts == 2      \* length of the podcast list handed to view::verify

NoValue == "<none>"
None == [some |-> FALSE]
Some(x) == [some |-> TRUE, val |-> x]

-----------------------------------------------------------------------------
(* Sequences of fragments *)

RECURSIVE Flatten(_)
Flatten(ss) == IF ss = <<>> THEN <<>> ELSE Head(ss) \o Flatten(Tail(ss))

Contains(body, fragment) == \E i \in 1..Len(body) : body[i] = fragment

\* The fragments between the first `open` and the next `close` after it.
Between(body, open, close) ==
    IF ~Contains(body, open) THEN <<>>
    ELSE LET i == CHOOSE k \in 1..Len(body) :
                      body[k] = open /\ \A m \in 1..(k-1) : body[m] # open
             rest == SubSeq(body, i + 1, Len(body))
             j == IF Contains(rest, close)
                  THEN CHOOSE k \in 1..Len(rest) :
                           rest[k] = close /\ \A m \in 1..(k-1) : rest[m] # close
                  ELSE Len(rest) + 1
         IN SubSeq(rest, 1, j - 1)

-----------------------------------------------------------------------------
(* PEM text: main.rs 55, 60-67 *)

Dashes == <<"-", "-", "-", "-", "-">>

PemHeader == Dashes \o <<"B","E","G","I","N"," ","P","U","B","L","I","C"," ","K","E","Y">> \o Dashes
PemFooter == Dashes \o <<"E","N","D"," ","P","U","B","L","I","C"," ","K","E","Y">> \o Dashes

\* rsa::pkcs8::LineEnding
LF == <<"\n">>
CRLF == <<"\r", "\n">>
CR == <<"\r">>
LineEnding == {LF, CRLF, CR}

\* The label lines and the key lines, each line closed by `eol`.
Frame(key_lines, eol) ==
    PemHeader \o eol
    \o Flatten([i \in 1..Len(key_lines) |-> key_lines[i] \o eol])
    \o PemFooter \o eol

RECURSIVE Chunks(_, _)
Chunks(s, width) ==
    IF Len(s) <= width THEN (IF s = <<>> THEN <<>> ELSE <<s>>)
    ELSE <<SubSeq(s, 1, width)>> \o Chunks(SubSeq(s, width + 1, Len(s)), width)

\* EncodePublicKey::to_public_key_pem: the key's base64 text wrapped at the
\* encoder's line width and framed.
to_public_key_pem(key, eol) == Frame(Chunks(key, PemWrapWidth), eol)

\* str::lines: a line ends at "\n" or "\r\n"; a carriage return that no
\* line feed follows ends nothing and stays in the line; a last line with
\* no line ending is a line unless it is empty.
RECURSIVE lines(_)
lines(s) ==
    IF s = <<>> THEN <<>>
    ELSE IF \E i \in 1..Len(s) : s[i] = "\n"
    THEN LET i == CHOOSE k \in 1..Len(s) :
                      s[k] = "\n" /\ \A m \in 1..(k-1) : s[m] # "\n"
             raw == SubSeq(s, 1, i - 1)
             line == IF raw # <<>> /\ raw[Len(raw)] = "\r"
                     THEN SubSeq(raw, 1, Len(raw) - 1) ELSE raw
         IN <<line>> \o lines(SubSeq(s, i + 1, Len(s)))
    ELSE <<s>>

starts_with(line, pat) ==
    Len(line) >= Len(pat) /\ SubSeq(line, 1, Len(pat)) = pat

KeepsFooter(pem_string) ==
    Flatten(SelectSeq(lines(pem_string),
                      LAMBDA line : ~starts_with(line, PemHeader)))

pem_to_base64(pem_string) ==
    Flatten(SelectSeq(lines(pem_string),
                      LAMBDA line : ~starts_with(line, Dashes)))

-----------------------------------------------------------------------------
(* Startup state: main.rs 76-113 *)

customer_alice == [email |-> "alice@example.com", password |-> "password123"]
customer_bob == [email |-> "bob@example.com", password |-> "password456"]

StartupPodcasts ==
    << [title |-> "Alice's Podcast", slug |-> "alice-podcast", owner |-> customer_alice],
       [title |-> "Bob's Podcast", slug |-> "bob-podcast", owner |-> customer_bob] >>

\* RsaPrivateKey::new draws the key at random; a key is modelled by the
\* base64 text of its public part and a name for its private part.
KeyPairs ==
    { [public |-> <<"M","I","I","B">>, private |-> "private-1"],
      [public |-> <<"M","F","w","D","Q">>, private |-> "private-2"] }

\* Router::new()...with_state(...): main.rs 105-113
Routes ==
    { [path |-> "/", method |-> "GET", handler |-> "root"],
      [path |-> "/feed/:slug", method |-> "GET", handler |-> "feed"],
      [path |-> "/feed/:slug/verify", method |-> "GET", handler |-> "verify"] }

AppState ==
    [podcasts |-> podcasts, public_key |-> public_key, private_key |-> private_key]

-----------------------------------------------------------------------------
(* Requests *)

Slugs == {"alice-podcast", "bob-podcast", "carol-podcast"}

ValidReturnUrl == <<"https", "://", "aggregator.example", "/callback">>
InvalidReturnUrl == <<"not a url">>
ReturnUrlTexts == {ValidReturnUrl, InvalidReturnUrl}
EncryptedStrings == {<<"c2VjcmV0">>}

Option(S) == {None} \cup {Some(x) : x \in S}

\* The query string as serde reads it into VerifyParams (main.rs 18-24):
\* a parameter that is absent is None.
VerifyParams ==
    [encrypted_string : Option(EncryptedStrings), return_url : Option(ReturnUrlTexts)]

NoParams == [encrypted_string |-> None, return_url |-> None]

\* What a client sends: GET of every path, and the POST a browser makes
\* when the credential form is submitted, which goes to the URL of the page
\* that held the form (the form names no action).
FormParams == [encrypted_string : {Some(x) : x \in EncryptedStrings},
               return_url : {Some(ValidReturnUrl)}]

Requests ==
    [method : {"GET"}, path : {"/"}, slug : {NoValue}, params : {NoParams}]
    \cup [method : {"GET"}, path : {"/feed/:slug"}, slug : Slugs, params : {NoParams}]
    \cup [method : {"GET"}, path : {"/feed/:slug/verify"}, slug : Slugs, params : VerifyParams]
    \cup [method : {"POST"}, path : {"/feed/:slug/verify"}, slug : Slugs, params : FormParams]

\* Url::parse: an absolute URL starts with a scheme and "://" and names a
\* host; text without a scheme is a relative URL, which has no base here.
UrlParse(text) ==
    IF Len(text) >= 3 /\ text[2] = "://"
    THEN [ok |-> TRUE,
          url |-> [scheme |-> text[1], host |-> text[3],
                   path |-> IF Len(text) >= 4 THEN text[4] ELSE "/"]]
    ELSE [ok |-> FALSE]

-----------------------------------------------------------------------------
(* Rendering: main.rs 40-58, 136-138, 263-297 *)

base_html(title, main) ==
    <<"<!DOCTYPE html>", "<html>", "<head>", "<title>">> \o title
    \o <<"</title>", "</head>", "<body>", "<header>", "Hosting Company",
         "<a href=\"/\">", "Home", "</a>", "</header>", "<main>">>
    \o main
    \o <<"</main>", "</body>", "</html>">>

error(message) ==
    <<"<h2 style=\"color: crimson;\">", "Error", "</h2>", "<p>">> \o message \o <<"</p>">>

\* A find whose result is the head of the list whenever the slug is hosted.
slug_to_podcast_head(podcast_list, slug) ==
    IF \E i \in 1..Len(podcast_list) : podcast_list[i].slug = slug
    THEN Some(podcast_list[1])
    ELSE None

\* Iterator::find: the first podcast with the slug.
slug_to_podcast(podcast_list, slug) ==
    IF \E i \in 1..Len(podcast_list) : podcast_list[i].slug = slug
    THEN Some(podcast_list[CHOOSE i \in 1..Len(podcast_list) :
                  /\ podcast_list[i].slug = slug
                  /\ \A j \in 1..(i-1) : podcast_list[j].slug # slug])
    ELSE None

Podcast_feed(podcast, key) ==
    <<"<?xml version=\"1.0\" encoding=\"UTF-8\"?>",
      "<rss version=\"2.0\" xmlns:podcast=\"https://podcastindex.org/namespace/1.0\">",
      "<channel>", "<title>", podcast.title, "</title>",
      "<podcast:verify", "verifyUrl=\"http://localhost:8081/feed/", podcast.slug, "/verify\"",
      "publicKey=\"">>
    \o pem_to_base64(to_public_key_pem(key, LF))
    \o <<"\"", "/>", "</channel>", "</rss>">>

Response(status, content_type, body) ==
    [status |-> status, content_type |-> content_type, body |-> body]

feed(state, slug) ==
    LET found == slug_to_podcast(state.podcasts, slug)
    IN IF ~found.some THEN Response(404, NoValue, <<>>)
       ELSE Response(200, "application/xml", Podcast_feed(found.val, state.public_key))

root(state) ==
    LET title == <<"Hosting Company">>
    IN Response(200, "text/html",
         base_html(title,
           <<"<h1>">> \o title \o <<"</h1>", "<p>", "Podcasts we host:", "</p>", "<ul>">>
           \o Flatten([i \in 1..Len(state.podcasts) |->
                  <<"<li>", "<a href=\"/feed/", state.podcasts[i].slug, "\">",
                    state.podcasts[i].title, "</a>", "</li>">>])
           \o <<"</ul>">>))

verify(state, slug, params) ==
    LET found == slug_to_podcast(state.podcasts, slug)
    IN IF ~found.some
       THEN Response(404, "text/html",
              base_html(<<"Not Found">>,
                <<"<h1>", "Not Found", "</h1>", "<p>", "No podcast with slug ",
                  "<code>", slug, "</code>", " found.", "</p>">>))
       ELSE
       LET title == <<"Verify ownership of \"", found.val.title, "\"">>
       IN IF ~params.encrypted_string.some
          THEN Response(400, "text/html",
                 base_html(title,
                   <<"<h1>">> \o title \o <<"</h1>">>
                   \o error(<<"URL parameter ", "<code>", "encryptedString", "</code>",
                              " is required.">>)))
          ELSE IF ~params.return_url.some
          THEN Response(400, "text/html",
                 base_html(title,
                   <<"<h1>">> \o title \o <<"</h1>">>
                   \o error(<<"URL parameter ", "<code>", "returnUrl", "</code>",
                              " is required.">>)))
          ELSE IF ~UrlParse(params.return_url.val).ok
          THEN Response(400, "text/html",
                 base_html(title,
                   <<"<h1>">> \o title \o <<"</h1>">>
                   \o error(<<"Invalid ", "<code>", "returnUrl", "</code>", ".">>)))
          ELSE Response(200, "text/html",
                 base_html(title,
                   <<"<h1>">> \o title \o <<"</h1>",
                     "<form method=\"", "POST", "\" autocomplete=\"off\">",
                     "<label for=\"email\">", "Email", "</label>",
                     "<input type=\"email\" id=\"email\" name=\"email\"/>",
                     "<label for=\"password\">", "Password", "</label>",
                     "<input type=\"password\" id=\"password\" name=\"password\"/>",
                     "<button type=\"submit\">", "Verify", "</button>", "</form>">>))

-----------------------------------------------------------------------------
(* The server: main.rs 105-122 *)

Received(i) == i \in 1..Len(conn) /\ conn[i].pc = "received"
Done(i) == i \in 1..Len(conn) /\ conn[i].pc = "done"

RouteOf(req) == {r \in Routes : r.path = req.path /\ r.method = req.method}
HandlerOf(req) == IF RouteOf(req) = {} THEN NoValue ELSE (CHOOSE r \in RouteOf(req) : TRUE).handler

Respond(i, resp) ==
    conn' = [conn EXCEPT ![i] = [pc |-> "done", req |-> conn[i].req, resp |-> resp]]

\* hyper accepts a request and hands it to the router.
Accept(req) ==
    /\ Len(conn) < MaxRequests
    /\ conn' = Append(conn, [pc |-> "received", req |-> req, resp |-> NoValue])
    /\ UNCHANGED <<podcasts, public_key, private_key>>

Root(i) ==
    /\ Received(i) /\ HandlerOf(conn[i].req) = "root"
    /\ Respond(i, root(AppState))
    /\ UNCHANGED <<podcasts, public_key, private_key>>

\* A feed handler that moves the podcast it found out of the shared list.
FeedTakesPodcast(i) ==
    /\ Received(i) /\ HandlerOf(conn[i].req) = "feed"
    /\ Respond(i, feed(AppState, conn[i].req.slug))
    /\ podcasts' = SelectSeq(podcasts, LAMBDA p : p.slug # conn[i].req.slug)
    /\ UNCHANGED <<public_key, private_key>>

Feed(i) ==
    /\ Received(i) /\ HandlerOf(conn[i].req) = "feed"
    /\ Respond(i, feed(AppState, conn[i].req.slug))
    /\ UNCHANGED <<podcasts, public_key, private_key>>

Verify(i) ==
    /\ Received(i) /\ HandlerOf(conn[i].req) = "verify"
    /\ Respond(i, verify(AppState, conn[i].req.slug, conn[i].req.params))
    /\ UNCHANGED <<podcasts, public_key, private_key>>

\* A path of the router with no handler for the request's method: the
\* method router answers 405 Method Not Allowed with an empty body.
MethodNotAllowed(i) ==
    /\ Received(i) /\ HandlerOf(conn[i].req) = NoValue
    /\ Respond(i, Response(405, NoValue, <<>>))
    /\ UNCHANGED <<podcasts, public_key, private_key>>

IdleView ==
    /\ view_state = None /\ view_out = None /\ browser = None
IdlePem ==
    /\ pem_lines = <<>> /\ pem_input = <<>> /\ pem_out = None
IdleServer ==
    /\ podcasts = <<>> /\ public_key = NoValue /\ private_key = NoValue /\ conn = <<>>

Init ==
    /\ podcasts = StartupPodcasts
    /\ \E k \in KeyPairs : public_key = k.public /\ private_key = k.private
    /\ conn = <<>>
    /\ IdleView /\ IdlePem

Next ==
    \/ \E req \in Requests : Accept(req) /\ UNCHANGED <<view_vars, pem_vars>>
    \/ \E i \in 1..MaxRequests : Root(i) /\ UNCHANGED <<view_vars, pem_vars>>
    \/ \E i \in 1..MaxRequests : Feed(i) /\ UNCHANGED <<view_vars, pem_vars>>
    \/ \E i \in 1..MaxRequests : Verify(i) /\ UNCHANGED <<view_vars, pem_vars>>
    \/ \E i \in 1..MaxRequests : MethodNotAllowed(i) /\ UNCHANGED <<view_vars, pem_vars>>

Spec == Init /\ [][Next]_vars

-----------------------------------------------------------------------------
(* view.rs *)

\* Url::to_string serialises the parsed URL.
UrlToString(url) == <<url.scheme, "://", url.host, url.path>>

\* StatusCode::to_string: the number and the canonical reason.
StatusCodeToString(code) ==
    IF code = 400 THEN "400 Bad Request"
    ELSE IF code = 404 THEN "404 Not Found"
    ELSE "200 OK"

\* dissolve::strip_html_tags: the text outside tags. A tag runs from a
\* fragment that opens one to the fragment that closes it.
OpensTag == {"<a href=\""}
ClosesTag == {"\" rel=\"noreferrer\" target=\"_blank\">"}
WholeTag == {"</a>"}

RECURSIVE StripFrom(_, _)
StripFrom(text, in_tag) ==
    IF text = <<>> THEN <<>>
    ELSE LET f == Head(text)
         IN IF in_tag THEN StripFrom(Tail(text), f \notin ClosesTag)
            ELSE IF f \in OpensTag THEN StripFrom(Tail(text), TRUE)
            ELSE IF f \in WholeTag THEN StripFrom(Tail(text), FALSE)
            ELSE <<f>> \o StripFrom(Tail(text), FALSE)

strip_html_tags(text) == StripFrom(text, FALSE)

view_base_html(title, main) ==
    <<"<!DOCTYPE html>", "<html>", "<head>", "<title>">> \o strip_html_tags(title)
    \o <<"</title>", "</head>", "<body>", "<header>", "Hosting Company",
         "<a href=\"/\">", "Home", "</a>", "</header>", "<main>">>
    \o main
    \o <<"</main>", "</body>", "</html>">>

view_error(message) ==
    <<"<h2 style=\"color: crimson;\">", "Error", "</h2>", "<p>">> \o message \o <<"</p>">>

\* The countdown of the Error page: view.rs 115-129
Countdown(return_url) ==
    <<"<strong>", "Redirecting to ", "<a href=\"">> \o UrlToString(return_url)
    \o <<"\" rel=\"noreferrer\">">> \o UrlToString(return_url)
    \o <<"</a>", " in ", "<span id=\"countdown\">", "10", "</span>", " seconds...",
         "</strong>", "<script>", "let seconds = 10;",
         "let countdown = document.getElementById('countdown');",
         "let interval = setInterval(() => {", "seconds -= 1;",
         "countdown.innerText = seconds;", "if (seconds <= 0) {",
         "clearInterval(interval);", "window.location.href = '">>
    \o UrlToString(return_url)
    \o <<"';", "}", "}, 1000);", "</script>">>

view_verify(state) ==
    IF state.tag = "Neutral"
    THEN LET title ==
                 <<"Log in to verify ownership of \"", state.podcast.title, "\" to ",
                   "<a href=\"", state.return_url_scheme, "://", state.return_url_domain,
                   "\" rel=\"noreferrer\" target=\"_blank\">", state.return_url_domain, "</a>">>
         IN [status |-> 200,
             body |-> view_base_html(title,
                 <<"<h1>">> \o title \o <<"</h1>",
                   "<form method=\"", "POST", "\" autocomplete=\"off\">",
                   "<label for=\"email\">", "Email", "</label>",
                   "<input type=\"email\" list=\"email-list\" id=\"email\" name=\"email\"/>",
                   "<datalist id=\"email-list\">">>
                 \o Flatten([i \in 1..Len(state.podcasts) |->
                        <<"<option value=\"", state.podcasts[i].owner.email, "\" />">>])
                 \o <<"</datalist>",
                      "<label for=\"password\">", "Password", "</label>",
                      "<input type=\"password\" id=\"password\" name=\"password\"/>",
                      "<button type=\"submit\">", "Log in", "</button>", "</form>">>)]
    ELSE LET title == IF state.podcast.some
                      THEN <<"Verify ownership of \"", state.podcast.val.title, "\"">>
                      ELSE <<"Verify ownership">>
             error_title == <<"Error: ", StatusCodeToString(state.code)>>
         IN [status |-> state.code,
             body |-> view_base_html(error_title,
                 <<"<h1>">> \o title \o <<"</h1>">>
                 \o view_error(state.message)
                 \o (IF state.return_url.some THEN Countdown(state.return_url.val)
                     ELSE <<>>))]

\* Arguments of view::verify
PodcastPool ==
    { StartupPodcasts[1], StartupPodcasts[2],
      [title |-> "Alice's Other Podcast", slug |-> "alice-other", owner |-> customer_alice] }

PodcastLists == UNION {[1..n -> PodcastPool] : n \in 0..MaxPodcasts}

Urls == { UrlParse(ValidReturnUrl).url,
          [scheme |-> "http", host |-> "localhost:8080", path |-> "/"] }

Messages == {<<"returnUrl required">>, <<"podcast not found">>}

VerifyState ==
    [tag : {"Neutral"}, podcasts : PodcastLists, podcast : PodcastPool,
     return_url_scheme : {"https"}, return_url_domain : {"aggregator.example"}]
    \cup
    [tag : {"Error"}, podcast : Option(PodcastPool), return_url : Option(Urls),
     message : Messages, code : {400, 404}]

\* The rendered page as the browser holds it once loaded: the script's
\* variables, the URL shown, and how long the page has been watched.
ThisPage == <<"this page">>

PageLoad(body) ==
    [seconds |-> IF Contains(body, "let seconds = 10;") THEN 10 ELSE 0,
     interval |-> Contains(body, "let interval = setInterval(() => {"),
     target |-> Between(body, "window.location.href = '", "';"),
     location |-> ThisPage,
     elapsed |-> 0,
     redirects |-> 0]

IntervalNeverCleared(b) ==
    LET seconds == b.seconds - 1
    IN IF seconds <= 0
       THEN [b EXCEPT !.seconds = seconds, !.location = b.target,
                      !.redirects = b.redirects + 1]
       ELSE [b EXCEPT !.seconds = seconds]

\* The function given to setInterval: view.rs 120-127
IntervalCallback(b) ==
    LET seconds == b.seconds - 1
    IN IF seconds <= 0
       THEN [b EXCEPT !.seconds = seconds, !.interval = FALSE, !.location = b.target,
                      !.redirects = b.redirects + 1]
       ELSE [b EXCEPT !.seconds = seconds]

ViewVerify ==
    /\ view_out = None
    /\ view_out' = Some(view_verify(view_state))
    /\ browser' = PageLoad(view_out'.val.body)
    /\ UNCHANGED view_state

\* One second passes in the browser; a live interval runs its function.
Second ==
    /\ view_out.some
    /\ browser.elapsed < MaxSeconds
    /\ browser' = [(IF browser.interval THEN IntervalCallback(browser) ELSE browser)
                     EXCEPT !.elapsed = browser.elapsed + 1]
    /\ UNCHANGED <<view_state, view_out>>

ViewInit ==
    /\ view_state \in VerifyState
    /\ view_out = None
    /\ browser = None
    /\ IdleServer /\ IdlePem

ViewNext ==
    \/ ViewVerify /\ UNCHANGED <<server_vars, pem_vars>>
    \/ Second /\ UNCHANGED <<server_vars, pem_vars>>

ViewSpec == ViewInit /\ [][ViewNext]_vars

-----------------------------------------------------------------------------
(* pem_to_base64 over PEM documents *)

Base64Chars == {"M", "w"}

KeyLines == UNION {[1..n -> Base64Chars] : n \in 1..PemWrapWidth}

KeyLineLists == UNION {[1..n -> KeyLines] : n \in 1..MaxPemLines}

\* The standard framing of a base64 text.
Rewrap(base64) == to_public_key_pem(base64, LF)

PemToBase64 ==
    /\ pem_out = None
    /\ pem_out' = [some |-> TRUE, base64 |-> pem_to_base64(pem_input), rewrapped |-> None]
    /\ UNCHANGED <<pem_lines, pem_input>>

PemRewrap ==
    /\ pem_out.some /\ pem_out.rewrapped = None
    /\ pem_out' = [pem_out EXCEPT !.rewrapped = Some(Rewrap(pem_out.base64))]
    /\ UNCHANGED <<pem_lines, pem_input>>

PemInit ==
    /\ pem_lines \in KeyLineLists
    /\ \E eol \in LineEnding : pem_input = Frame(pem_lines, eol)
    /\ pem_out = None
    /\ IdleServer /\ IdleView

PemNext ==
    \/ PemToBase64 /\ UNCHANGED <<server_vars, view_vars>>
    \/ PemRewrap /\ UNCHANGED <<server_vars, view_vars>>

PemSpec == PemInit /\ [][PemNext]_vars

-----------------------------------------------------------------------------
(* Properties *)

\* The answered requests that reached the verify handler.
VerifyAnswered == {i \in 1..Len(conn) : Done(i) /\ HandlerOf(conn[i].req) = "verify"}
FeedAnswered == {i \in 1..Len(conn) : Done(i) /\ HandlerOf(conn[i].req) = "feed"}

Registered(slug) == \E k \in 1..Len(StartupPodcasts) : StartupPodcasts[k].slug = slug

HasValidReturnUrl(req) ==
    req.params.return_url.some /\ req.params.return_url.val = ValidReturnUrl
HasInvalidReturnUrl(req) ==
    req.params.return_url.some /\ req.params.return_url.val = InvalidReturnUrl

RedirectTarget(body) == Between(body, "window.location.href = '", "';")

EmailSuggested(body, email) ==
    Cardinality({k \in 1..(Len(body) - 1) :
                    body[k] = "<option value=\"" /\ body[k + 1] = email})

\* C1: a verify request with an unknown slug and a valid returnUrl is
\* answered 404 and the response carries a redirect target equal to that
\* returnUrl.
C1_UnknownSlugRedirects ==
    \A i \in VerifyAnswered :
        (~Registered(conn[i].req.slug) /\ HasValidReturnUrl(conn[i].req))
        => /\ conn[i].resp.status = 404
           /\ RedirectTarget(conn[i].resp.body) = conn[i].req.params.return_url.val

\* C2: a verify request without returnUrl is answered 400 with a body that
\* references "returnUrl", whatever the slug and the challenge token.
C2_MissingReturnUrlIs400 ==
    \A i \in VerifyAnswered :
        ~conn[i].req.params.return_url.some
        => /\ conn[i].resp.status = 400
           /\ Contains(conn[i].resp.body, "returnUrl")

\* C3: a verify request whose returnUrl does not parse as an absolute URL is
\* answered 400, whatever the slug and the challenge token.
C3_InvalidReturnUrlIs400 ==
    \A i \in VerifyAnswered :
        HasInvalidReturnUrl(conn[i].req) => conn[i].resp.status = 400

\* C4: a verify request with a registered slug and a valid returnUrl but no
\* challenge token is answered 400 and the response shows the title of the
\* podcast registered under that slug.
C4_MissingTokenIs400WithTitle ==
    \A i \in VerifyAnswered :
        ( /\ Registered(conn[i].req.slug)
          /\ HasValidReturnUrl(conn[i].req)
          /\ ~conn[i].req.params.encrypted_string.some )
        => /\ conn[i].resp.status = 400
           /\ \A k \in 1..Len(StartupPodcasts) :
                  Contains(conn[i].resp.body, StartupPodcasts[k].title)
                  <=> StartupPodcasts[k].slug = conn[i].req.slug

C4_Witness ==
    \E i \in VerifyAnswered :
        /\ conn[i].req.slug = "bob-podcast"
        /\ HasValidReturnUrl(conn[i].req)
        /\ ~conn[i].req.params.encrypted_string.some
        /\ conn[i].resp.status = 400

\* C5: a fully valid verify request (registered slug, valid returnUrl, a
\* challenge token) is answered 200 and the email suggestions of the page
\* hold every registered owner's email exactly once.
C5_ValidRequestSuggestsEveryEmailOnce ==
    \A i \in VerifyAnswered :
        ( /\ Registered(conn[i].req.slug)
          /\ HasValidReturnUrl(conn[i].req)
          /\ conn[i].req.params.encrypted_string.some )
        => /\ conn[i].resp.status = 200
           /\ \A k \in 1..Len(podcasts) :
                  EmailSuggested(conn[i].resp.body, podcasts[k].owner.email) = 1

\* C6: GET /feed/{slug} is answered 200 with a document whose verification
\* element carries the base64 text of the process's public key and which
\* describes the podcast of that slug when the slug is registered, and 404
\* when it is not.
C6_FeedCarriesPublicKey ==
    \A i \in FeedAnswered :
        IF Registered(conn[i].req.slug)
        THEN /\ conn[i].resp.status = 200
             /\ Between(conn[i].resp.body, "publicKey=\"", "\"") = public_key
             /\ Between(conn[i].resp.body, "verifyUrl=\"http://localhost:8081/feed/", "/verify\"")
                    = <<conn[i].req.slug>>
             /\ \E k \in 1..Len(StartupPodcasts) :
                    /\ StartupPodcasts[k].slug = conn[i].req.slug
                    /\ Between(conn[i].resp.body, "<title>", "</title>")
                           = <<StartupPodcasts[k].title>>
        ELSE conn[i].resp.status = 404

C6_Witness ==
    \E i, j \in FeedAnswered :
        /\ conn[i].req.slug = "alice-podcast" /\ conn[i].resp.status = 200
        /\ conn[j].req.slug = "carol-podcast" /\ conn[j].resp.status = 404

\* C7: /feed/{slug}/verify accepts GET and POST: a request with either
\* method is answered by the verification handler with 200, 400 or 404.
C7_VerifyAcceptsGetAndPost ==
    \A i \in 1..Len(conn) :
        (Done(i) /\ conn[i].req.path = "/feed/:slug/verify")
        => conn[i].resp.status \in {200, 400, 404}

PemLineFeedRoundTrip ==
    (pem_out.some /\ Contains(pem_input, "\n"))
    => /\ pem_out.base64 = Flatten(pem_lines)
       /\ pem_out.rewrapped.some
          => pem_to_base64(pem_out.rewrapped.val) = Flatten(pem_lines)

\* C9: no handler changes the registry or the keypair, and the answer to a
\* request is the same whichever requests were answered before it or are in
\* flight with it.
SameRequestSameResponse ==
    \A i, j \in 1..Len(conn) :
        (Done(i) /\ Done(j) /\ conn[i].req = conn[j].req) => conn[i].resp = conn[j].resp

C9_StateImmutableResponsesStateless ==
    /\ [][ /\ podcasts' = podcasts
           /\ public_key' = public_key
           /\ private_key' = private_key ]_vars
    /\ []SameRequestSameResponse

C9_Witness ==
    /\ Len(conn) = 2 /\ Done(1) /\ Done(2)
    /\ conn[1].req = conn[2].req
    /\ conn[1].req.path = "/feed/:slug" /\ conn[1].resp.status = 200

\* C10: the Error page holds a countdown exactly when a return_url is
\* carried; the counter starts at 10 and drops by one each second; the
\* browser goes to return_url when the counter reaches 0, after 10 seconds,
\* once, and the timer is cleared; without a return_url the browser stays.
C10_CountdownRedirectsOnce ==
    (view_out.some /\ view_state.tag = "Error")
    => /\ Contains(view_out.val.body, "<script>") <=> view_state.return_url.some
       /\ Contains(view_out.val.body, "<span id=\"countdown\">") <=> view_state.return_url.some
       /\ IF view_state.return_url.some
          THEN /\ browser.elapsed <= 10 => browser.seconds = 10 - browser.elapsed
               /\ browser.elapsed < 10
                  => /\ browser.interval
                     /\ browser.redirects = 0
                     /\ browser.location = ThisPage
               /\ browser.elapsed >= 10
                  => /\ browser.seconds = 0
                     /\ ~browser.interval
                     /\ browser.redirects = 1
                     /\ browser.location = UrlToString(view_state.return_url.val)
          ELSE /\ ~browser.interval
               /\ browser.redirects = 0
               /\ browser.location = ThisPage

C10_Witness ==
    /\ view_out.some /\ view_state.tag = "Error" /\ view_state.return_url.some
    /\ browser.elapsed = 12
    /\ browser.redirects = 1
    /\ browser.location = UrlToString(view_state.return_url.val)

=============================================================================
